---- MODULE Spec2Model ----
(***************************************************************************)
(* Model of the signal engine of the trading bot:                          *)
(*   common/signal_generation.py  simulated_trade_performance,             *)
(*                                combine_scores*, apply_rule_with_score_* *)
(*   common/utils.py              discretize                               *)
(*                                                                         *)
(* Numbers.  A float is modelled exactly as a fraction <<n, d>> in lowest  *)
(* terms with d > 0; the three special values of the float type are        *)
(* <<1, 0>> (+inf), <<-1, 0>> (-inf) and <<0, 0>> (NaN, the missing        *)
(* marker of a table cell).  Rounding is not modelled.                     *)
(***************************************************************************)
EXTENDS Integers, Sequences, FiniteSets, TLC

VARIABLES
    \* ---- simulated_trade_performance: locals of the function
    tpc,                    \* "loop" while iterating the rows, "done" after return
    index, sell_signal, buy_signal, price,      \* the loop variables (current row)
    is_buy_mode,
    long_profit, long_profit_percent, long_transactions, long_profitable, longs,
    short_profit, short_profit_percent, short_transactions, short_profitable, shorts,
    performance, long_performance, short_performance,   \* the three returned dicts
    \* ---- discretize: the arguments of a call and what it returned
    dpc,                    \* "ready", "called" (discretize returned or raised), "halved"
    side, depth, bin_size, start,
    bin_volumes,            \* outcome of discretize(side, depth, bin_size, start)
    half_volumes,           \* outcome of the same call with bin_size / 2
    \* ---- combine_scores / apply_rule_with_score_thresholds(_one_row)
    spc,                    \* "ready", "combined", "batch" (batch rule applied)
    model,                  \* the configuration dict
    df0,                    \* the score table the caller passed in
    df,                     \* the table as the functions leave it
    row_signals,            \* outcomes of the one-row rule, rows 1..Len(row_signals)
    \* ---- find_interval_precision
    ipc,                    \* "ready", "called"
    ip_df,                  \* the table df (label and score columns, then the added ones)
    ip_threshold,
    interval_df,            \* the outcome: the returned table or the exception
    \* ---- aggregate_scores
    apc,                    \* "ready", "called"
    agg_model,              \* the score_aggregation dict
    agg_df,                 \* the input score columns, one sequence of cells per row
    mean_column,            \* score_column after the mean over the columns
    point_column,           \* score_column after the threshold step
    score_column,           \* score_column as returned and stored in the table
    agg_err,                \* "none" or the exception raised
    \* ---- depth_to_features, depth_to_df
    fpc,                    \* "ready", "called" (depth_to_features); "table", "joined" (depth_to_df)
    entry,                  \* one depth snapshot
    record,                 \* the outcome: the feature record or the exception
    depth_list,             \* the list of snapshots given to depth_to_df
    df_out                  \* the outcome: the joined table or the exception

tvars == <<tpc, index, sell_signal, buy_signal, price, is_buy_mode,
           long_profit, long_profit_percent, long_transactions, long_profitable, longs,
           short_profit, short_profit_percent, short_transactions, short_profitable, shorts,
           performance, long_performance, short_performance>>

dvars == <<dpc, side, depth, bin_size, start, bin_volumes, half_volumes>>

svars == <<spc, model, df0, df, row_signals>>

ivars == <<ipc, ip_df, ip_threshold, interval_df>>

avars == <<apc, agg_model, agg_df, mean_column, point_column, score_column, agg_err>>

fvars == <<fpc, entry, record, depth_list, df_out>>

vars == <<tvars, dvars, svars, ivars, avars, fvars>>

-----------------------------------------------------------------------------
(* Floats *)

Abs(x) == IF x < 0 THEN -x ELSE x

RECURSIVE GCD(_, _)
GCD(a, b) == IF b = 0 THEN a ELSE GCD(b, a % b)

NaN  == <<0, 0>>
PInf == <<1, 0>>
NInf == <<-1, 0>>

\* the float n/d, d # 0, in lowest terms
Frac(n, d) ==
    LET s == IF d < 0 THEN -1 ELSE 1
        g == GCD(Abs(n), Abs(d))
    IN  <<(s * n) \div g, (s * d) \div g>>

F(n) == <<n, 1>>

IsNaN(a)    == a = NaN
IsInf(a)    == a[2] = 0 /\ a[1] # 0
IsFinite(a) == a[2] > 0
Sign(a)     == IF a[1] > 0 THEN 1 ELSE IF a[1] < 0 THEN -1 ELSE 0

FNeg(a) == <<-a[1], a[2]>>

FAdd(a, b) ==
    IF IsNaN(a) \/ IsNaN(b) THEN NaN
    ELSE IF IsInf(a) /\ IsInf(b) THEN (IF a = b THEN a ELSE NaN)
    ELSE IF IsInf(a) THEN a
    ELSE IF IsInf(b) THEN b
    ELSE Frac(a[1] * b[2] + b[1] * a[2], a[2] * b[2])

FSub(a, b) == FAdd(a, FNeg(b))

FMul(a, b) ==
    IF IsNaN(a) \/ IsNaN(b) THEN NaN
    ELSE IF IsInf(a) \/ IsInf(b)
         THEN (IF Sign(a) * Sign(b) = 0 THEN NaN ELSE <<Sign(a) * Sign(b), 0>>)
    ELSE Frac(a[1] * b[1], a[2] * b[2])

\* array division (numpy): x/0 is +-inf, 0/0 is NaN, no exception
FDiv(a, b) ==
    IF IsNaN(a) \/ IsNaN(b) THEN NaN
    ELSE IF IsInf(a) THEN (IF IsInf(b) THEN NaN
                           ELSE <<Sign(a) * (IF Sign(b) < 0 THEN -1 ELSE 1), 0>>)
    ELSE IF IsInf(b) THEN F(0)
    ELSE IF b[1] = 0 THEN (IF a[1] = 0 THEN NaN ELSE <<Sign(a), 0>>)
    ELSE Frac(a[1] * b[2], a[2] * b[1])

\* comparisons: every comparison with NaN is false
FGt(a, b) ==
    IF IsNaN(a) \/ IsNaN(b) THEN FALSE
    ELSE IF a = b THEN FALSE
    ELSE IF a = PInf \/ b = NInf THEN TRUE
    ELSE IF a = NInf \/ b = PInf THEN FALSE
    ELSE a[1] * b[2] > b[1] * a[2]

FGe(a, b) == ~IsNaN(a) /\ ~IsNaN(b) /\ (a = b \/ FGt(a, b))

\* truth value of a float (`not x` is its negation): 0 is falsy, NaN is truthy
Truthy(a) == a # F(0)

\* the sum of a sequence of floats
RECURSIVE FSum(_)
FSum(s) == IF s = <<>> THEN F(0) ELSE FAdd(Head(s), FSum(Tail(s)))

-----------------------------------------------------------------------------
(* Bounds *)

MaxRows == 4

\* the values a cell of the price column takes
Prices == {NaN, F(0), F(-1), F(1), F(2)}

-----------------------------------------------------------------------------
(* simulated_trade_performance *)

NoReport == [profit |-> F(0)]

TradeStart(pc) ==
    /\ tpc = pc
    /\ index = 0 /\ sell_signal = FALSE /\ buy_signal = FALSE /\ price = NaN
    /\ is_buy_mode = TRUE
    /\ long_profit = F(0) /\ long_profit_percent = F(0)
    /\ long_transactions = 0 /\ long_profitable = 0 /\ longs = <<>>
    /\ short_profit = F(0) /\ short_profit_percent = F(0)
    /\ short_transactions = 0 /\ short_profitable = 0 /\ shorts = <<>>
    /\ performance = NoReport /\ long_performance = NoReport
    /\ short_performance = NoReport

\* shorts[-1][2] if len(shorts) > 0 else 0.0
PreviousPrice(trades) == IF Len(trades) > 0 THEN trades[Len(trades)][3] ELSE F(0)

\* profit of a closing leg; diff is the price difference in the leg's direction
Profit(previous_price, diff) == IF FGt(previous_price, F(0)) THEN diff ELSE F(0)

ProfitPercent(previous_price, profit) ==
    IF FGt(previous_price, F(0)) THEN FDiv(FMul(F(100), profit), previous_price) ELSE F(0)

\* a row whose price is 0 or missing: continue
SkipRow(s, b, p) ==
    /\ tpc = "loop" /\ index < MaxRows
    /\ (~Truthy(p) \/ IsNaN(p))
    /\ index' = index + 1 /\ sell_signal' = s /\ buy_signal' = b /\ price' = p
    /\ UNCHANGED <<tpc, is_buy_mode,
                   long_profit, long_profit_percent, long_transactions, long_profitable, longs,
                   short_profit, short_profit_percent, short_transactions, short_profitable,
                   shorts, performance, long_performance, short_performance>>
    /\ UNCHANGED <<dvars, svars, ivars, avars, fvars>>

\* BuyRow with the mode left in AwaitingBuy after the buy
BuyRow_KeepsMode(s, b, p) ==
    /\ tpc = "loop" /\ index < MaxRows
    /\ ~(~Truthy(p) \/ IsNaN(p))
    /\ is_buy_mode /\ b
    /\ LET previous_price == PreviousPrice(shorts)
           profit == Profit(previous_price, FSub(previous_price, p))
           profit_percent == ProfitPercent(previous_price, profit)
       IN  /\ short_profit' = FAdd(short_profit, profit)
           /\ short_profit_percent' = FAdd(short_profit_percent, profit_percent)
           /\ short_transactions' = short_transactions + 1
           /\ short_profitable' = IF FGt(profit, F(0)) THEN short_profitable + 1
                                  ELSE short_profitable
           /\ longs' = Append(longs, <<index + 1, is_buy_mode, p, profit, profit_percent>>)
    /\ index' = index + 1 /\ sell_signal' = s /\ buy_signal' = b /\ price' = p
    /\ UNCHANGED <<tpc, is_buy_mode, long_profit, long_profit_percent, long_transactions,
                   long_profitable, shorts,
                   performance, long_performance, short_performance>>
    /\ UNCHANGED <<dvars, svars, ivars, avars, fvars>>

\* BuyRow without the test of the row's price
BuyRow_NoPriceCheck(s, b, p) ==
    /\ tpc = "loop" /\ index < MaxRows
    /\ is_buy_mode /\ b
    /\ LET previous_price == PreviousPrice(shorts)
           profit == Profit(previous_price, FSub(previous_price, p))
           profit_percent == ProfitPercent(previous_price, profit)
       IN  /\ short_profit' = FAdd(short_profit, profit)
           /\ short_profit_percent' = FAdd(short_profit_percent, profit_percent)
           /\ short_transactions' = short_transactions + 1
           /\ short_profitable' = IF FGt(profit, F(0)) THEN short_profitable + 1
                                  ELSE short_profitable
           /\ longs' = Append(longs, <<index + 1, is_buy_mode, p, profit, profit_percent>>)
    /\ is_buy_mode' = FALSE
    /\ index' = index + 1 /\ sell_signal' = s /\ buy_signal' = b /\ price' = p
    /\ UNCHANGED <<tpc, long_profit, long_profit_percent, long_transactions,
                   long_profitable, shorts,
                   performance, long_performance, short_performance>>
    /\ UNCHANGED <<dvars, svars, ivars, avars, fvars>>

\* BuyRow with the trade appended to the shorts list
BuyRow_AppendsToShorts(s, b, p) ==
    /\ tpc = "loop" /\ index < MaxRows
    /\ ~(~Truthy(p) \/ IsNaN(p))
    /\ is_buy_mode /\ b
    /\ LET previous_price == PreviousPrice(shorts)
           profit == Profit(previous_price, FSub(previous_price, p))
           profit_percent == ProfitPercent(previous_price, profit)
       IN  /\ short_profit' = FAdd(short_profit, profit)
           /\ short_profit_percent' = FAdd(short_profit_percent, profit_percent)
           /\ short_transactions' = short_transactions + 1
           /\ short_profitable' = IF FGt(profit, F(0)) THEN short_profitable + 1
                                  ELSE short_profitable
           /\ shorts' = Append(shorts, <<index + 1, is_buy_mode, p, profit, profit_percent>>)
    /\ is_buy_mode' = FALSE
    /\ index' = index + 1 /\ sell_signal' = s /\ buy_signal' = b /\ price' = p
    /\ UNCHANGED <<tpc, long_profit, long_profit_percent, long_transactions,
                   long_profitable, longs,
                   performance, long_performance, short_performance>>
    /\ UNCHANGED <<dvars, svars, ivars, avars, fvars>>

\* BuyRow that goes on to the sell branch in the same row when the row also
\* has a sell signal
BuyRow_ThenSell(s, b, p) ==
    /\ tpc = "loop" /\ index < MaxRows
    /\ ~(~Truthy(p) \/ IsNaN(p))
    /\ is_buy_mode /\ b
    /\ LET previous_price == PreviousPrice(shorts)
           profit == Profit(previous_price, FSub(previous_price, p))
           profit_percent == ProfitPercent(previous_price, profit)
       IN  /\ short_profit' = FAdd(short_profit, profit)
           /\ short_profit_percent' = FAdd(short_profit_percent, profit_percent)
           /\ short_transactions' = short_transactions + 1
           /\ short_profitable' = IF FGt(profit, F(0)) THEN short_profitable + 1
                                  ELSE short_profitable
           /\ longs' = Append(longs, <<index + 1, is_buy_mode, p, profit, profit_percent>>)
    /\ IF s
       THEN /\ long_profit' = long_profit
            /\ long_profit_percent' = long_profit_percent
            /\ long_transactions' = long_transactions + 1
            /\ long_profitable' = long_profitable
            /\ shorts' = Append(shorts, <<index + 1, FALSE, p, F(0), F(0)>>)
            /\ is_buy_mode' = TRUE
       ELSE /\ UNCHANGED <<long_profit, long_profit_percent, long_transactions,
                           long_profitable, shorts>>
            /\ is_buy_mode' = FALSE
    /\ index' = index + 1 /\ sell_signal' = s /\ buy_signal' = b /\ price' = p
    /\ UNCHANGED <<tpc, performance, long_performance, short_performance>>
    /\ UNCHANGED <<dvars, svars, ivars, avars, fvars>>

\* buy mode and buy signal (rows are labelled 1, 2, ... in table order)
BuyRow(s, b, p) ==
    /\ tpc = "loop" /\ index < MaxRows
    /\ ~(~Truthy(p) \/ IsNaN(p))
    /\ is_buy_mode /\ b
    /\ LET previous_price == PreviousPrice(shorts)
           profit == Profit(previous_price, FSub(previous_price, p))
           profit_percent == ProfitPercent(previous_price, profit)
       IN  /\ short_profit' = FAdd(short_profit, profit)
           /\ short_profit_percent' = FAdd(short_profit_percent, profit_percent)
           /\ short_transactions' = short_transactions + 1
           /\ short_profitable' = IF FGt(profit, F(0)) THEN short_profitable + 1
                                  ELSE short_profitable
           /\ longs' = Append(longs, <<index + 1, is_buy_mode, p, profit, profit_percent>>)
    /\ is_buy_mode' = FALSE
    /\ index' = index + 1 /\ sell_signal' = s /\ buy_signal' = b /\ price' = p
    /\ UNCHANGED <<tpc, long_profit, long_profit_percent, long_transactions,
                   long_profitable, shorts,
                   performance, long_performance, short_performance>>
    /\ UNCHANGED <<dvars, svars, ivars, avars, fvars>>

\* sell mode and sell signal
SellRow(s, b, p) ==
    /\ tpc = "loop" /\ index < MaxRows
    /\ ~(~Truthy(p) \/ IsNaN(p))
    /\ ~is_buy_mode /\ s
    /\ LET previous_price == PreviousPrice(longs)
           profit == Profit(previous_price, FSub(p, previous_price))
           profit_percent == ProfitPercent(previous_price, profit)
       IN  /\ long_profit' = FAdd(long_profit, profit)
           /\ long_profit_percent' = FAdd(long_profit_percent, profit_percent)
           /\ long_transactions' = long_transactions + 1
           /\ long_profitable' = IF FGt(profit, F(0)) THEN long_profitable + 1
                                 ELSE long_profitable
           /\ shorts' = Append(shorts, <<index + 1, is_buy_mode, p, profit, profit_percent>>)
    /\ is_buy_mode' = TRUE
    /\ index' = index + 1 /\ sell_signal' = s /\ buy_signal' = b /\ price' = p
    /\ UNCHANGED <<tpc, short_profit, short_profit_percent, short_transactions,
                   short_profitable, longs,
                   performance, long_performance, short_performance>>
    /\ UNCHANGED <<dvars, svars, ivars, avars, fvars>>

\* a priced row without the signal of the current mode: nothing happens
IdleRow(s, b, p) ==
    /\ tpc = "loop" /\ index < MaxRows
    /\ ~(~Truthy(p) \/ IsNaN(p))
    /\ (IF is_buy_mode THEN ~b ELSE ~s)
    /\ index' = index + 1 /\ sell_signal' = s /\ buy_signal' = b /\ price' = p
    /\ UNCHANGED <<tpc, is_buy_mode,
                   long_profit, long_profit_percent, long_transactions, long_profitable, longs,
                   short_profit, short_profit_percent, short_transactions, short_profitable,
                   shorts, performance, long_performance, short_performance>>
    /\ UNCHANGED <<dvars, svars, ivars, avars, fvars>>

\* PerOrZero without the guard: x / n
PerOrZero_Unguarded(x, n) == FDiv(x, F(n))

\* x / n if n else 0.0
PerOrZero(x, n) == IF n # 0 THEN FDiv(x, F(n)) ELSE F(0)

\* the rows are exhausted: build the three dicts and return
Report ==
    /\ tpc = "loop"
    /\ tpc' = "done"
    /\ long_performance' =
         [profit |-> long_profit, profit_percent |-> long_profit_percent,
          transaction_no |-> long_transactions,
          profitable |-> PerOrZero(F(long_profitable), long_transactions),
          transactions |-> longs]
    /\ short_performance' =
         [profit |-> short_profit, profit_percent |-> short_profit_percent,
          transaction_no |-> short_transactions,
          profitable |-> PerOrZero(F(short_profitable), short_transactions),
          transactions |-> shorts]
    /\ LET profit == FAdd(long_profit, short_profit)
           profit_percent == FAdd(long_profit_percent, short_profit_percent)
           transaction_no == long_transactions + short_transactions
           profitable == PerOrZero(F(long_profitable + short_profitable), transaction_no)
       IN  performance' =
             [profit |-> profit, profit_percent |-> profit_percent,
              transaction_no |-> transaction_no, profitable |-> profitable,
              profit_per_transaction |-> PerOrZero(profit, transaction_no),
              profitable_percent |-> PerOrZero(FMul(F(100), profitable), transaction_no)]
    /\ UNCHANGED <<index, sell_signal, buy_signal, price, is_buy_mode,
                   long_profit, long_profit_percent, long_transactions, long_profitable, longs,
                   short_profit, short_profit_percent, short_transactions, short_profitable,
                   shorts>>
    /\ UNCHANGED <<dvars, svars, ivars, avars, fvars>>

TradeStep ==
    \/ \E s \in BOOLEAN, b \in BOOLEAN, p \in Prices : SkipRow(s, b, p)
    \/ \E s \in BOOLEAN, b \in BOOLEAN, p \in Prices : BuyRow(s, b, p)
    \/ \E s \in BOOLEAN, b \in BOOLEAN, p \in Prices : SellRow(s, b, p)
    \/ \E s \in BOOLEAN, b \in BOOLEAN, p \in Prices : IdleRow(s, b, p)
    \/ Report


-----------------------------------------------------------------------------
(* discretize *)

\* bounds of the curves: at most MaxLen points, prices and cumulative volumes
\* from small integer grids (a price unit is the smallest halved bin size)
MaxLen == 3
DepthPrices == 0..3
DepthVolumes == 1..2
Sides == {"ask", "bid", "middle"}
BinSizes == {-1, 0, 1, 2, 4}
None == -1000                       \* start=None
Starts == {None, 0, 2}

Points == DepthPrices \X DepthVolumes
Curves == UNION {[1..n -> Points] : n \in 0..MaxLen}

\* floor division of Python (the quotient is rounded towards minus infinity)
FloorDiv(a, b) ==
    IF b > 0 THEN a \div b
    ELSE LET q == Abs(a) \div Abs(b)
         IN  IF a >= 0
             THEN (IF q * Abs(b) = a THEN -q ELSE -q - 1)
             ELSE q

\* the local prev_point: not yet assigned, None, or a point of the curve
Unbound == [k |-> "unbound", p |-> 0, v |-> 0]
PNone   == [k |-> "None", p |-> 0, v |-> 0]
Pt(pt)  == [k |-> "point", p |-> pt[1], v |-> pt[2]]

\* price_increase: "up" for ask/sell, "down" for bid/buy, else never assigned
PriceIncrease(s) ==
    IF s \in {"ask", "sell"} THEN "up"
    ELSE IF s \in {"bid", "buy"} THEN "down" ELSE "unbound"

\* ids (1-based) of the points within the bin
BinPointIds(d, inc, bin_start, bin_end) ==
    IF inc
    THEN {i \in 1..Len(d) : bin_start <= d[i][1] /\ d[i][1] < bin_end}
    ELSE {i \in 1..Len(d) : bin_end < d[i][1] /\ d[i][1] <= bin_start}

SetMin(S) == CHOOSE x \in S : \A y \in S : x <= y
SetMax(S) == CHOOSE x \in S : \A y \in S : y <= x

\* Contribution with a signed price_delta (right for increasing prices only)
Contribution_Signed(prev_volume, prev_price, pr, bs) ==
    FMul(F(prev_volume), Frac(pr - prev_price, bs))

\* prev_volume * price_coeff, with price_coeff = |price - prev_price| / bin_size
Contribution(prev_volume, prev_price, pr, bs) ==
    FMul(F(prev_volume), Frac(Abs(pr - prev_price), bs))

\* for point_id in range(first_point_id, last_point_id+1): ...
\* acc = [prev_price, prev_volume, bin_volume]
RECURSIVE PointLoop(_, _, _, _, _)
PointLoop(d, point_id, last_point_id, bs, acc) ==
    IF point_id > last_point_id THEN acc
    ELSE LET point == d[point_id]
         IN  PointLoop(d, point_id + 1, last_point_id, bs,
                 [prev_price |-> point[1], prev_volume |-> point[2],
                  bin_volume |-> FAdd(acc.bin_volume,
                      Contribution(acc.prev_volume, acc.prev_price, point[1], bs))])

\* one iteration of `for b in range(bin_count)`:
\* [err, prev_point, bin_volume] for bin b, entered with prev_point
OneBin(d, inc, bs, st, b, prev_point) ==
    LET bin_start == IF inc THEN st + b * bs ELSE st - b * bs
        bin_end   == IF inc THEN bin_start + bs ELSE bin_start - bs
        bin_point_ids == BinPointIds(d, inc, bin_start, bin_end)
    IN  IF bin_point_ids = {}
        THEN \* bin is empty: prev_point keeps what the previous bins left in it
             IF prev_point.k = "unbound"
             THEN [err |-> "UnboundLocalError", prev_point |-> prev_point,
                   bin_volume |-> NaN]
             ELSE LET prev_volume == IF prev_point.k = "point" THEN prev_point.v ELSE 0
                  IN  [err |-> "none", prev_point |-> prev_point,
                       bin_volume |-> Contribution(prev_volume, bin_start, bin_end, bs)]
        ELSE LET first_point_id == SetMin(bin_point_ids)
                 last_point_id  == SetMax(bin_point_ids)
                 pp == IF first_point_id >= 2 THEN Pt(d[first_point_id - 1]) ELSE PNone
                 prev_volume == IF pp.k = "point" THEN pp.v ELSE 0
                 acc == PointLoop(d, first_point_id, last_point_id, bs,
                            [prev_price |-> bin_start, prev_volume |-> prev_volume,
                             bin_volume |-> F(0)])
             IN  [err |-> "none", prev_point |-> Pt(d[last_point_id]),
                  bin_volume |-> FAdd(acc.bin_volume,
                      Contribution(acc.prev_volume, acc.prev_price, bin_end, bs))]

RECURSIVE BinLoop(_, _, _, _, _, _, _, _)
BinLoop(d, inc, bs, st, b, bin_count, prev_point, vols) ==
    IF b >= bin_count THEN [err |-> "none", bins |-> vols]
    ELSE LET r == OneBin(d, inc, bs, st, b, prev_point)
         IN  IF r.err # "none" THEN [err |-> r.err, bins |-> <<>>]
             ELSE BinLoop(d, inc, bs, st, b + 1, bin_count, r.prev_point,
                          Append(vols, r.bin_volume))

\* BinCount without the + 1
BinCount_NoPlusOne(d, bs, st) == FloorDiv(Abs(d[Len(d)][1] - st), bs)

\* int(abs(depth[-1][0] - start) // bin_size) + 1
BinCount(d, bs, st) == FloorDiv(Abs(d[Len(d)][1] - st), bs) + 1

\* the outcome of discretize(side, depth, bin_size, start):
\* [err |-> "none", bins |-> the returned list] or [err |-> the exception raised]
discretize(s, d, bs, st0) ==
    IF d = <<>> THEN [err |-> "IndexError", bins |-> <<>>]
    ELSE LET st == IF st0 = None THEN d[1][1] ELSE st0
         IN  IF bs = 0 THEN [err |-> "ZeroDivisionError", bins |-> <<>>]
             ELSE IF PriceIncrease(s) = "unbound"
                  THEN [err |-> "UnboundLocalError", bins |-> <<>>]
                  ELSE BinLoop(d, PriceIncrease(s) = "up", bs, st, 0,
                               BinCount(d, bs, st), Unbound, <<>>)

NotCalled == [err |-> "not called", bins |-> <<>>]

DiscretizeStart(pc) ==
    /\ dpc = pc
    /\ side \in (IF pc = "idle" THEN {"ask"} ELSE Sides)
    /\ depth \in (IF pc = "idle" THEN {<<>>} ELSE Curves)
    /\ bin_size \in (IF pc = "idle" THEN {1} ELSE BinSizes)
    /\ start \in (IF pc = "idle" THEN {None} ELSE Starts)
    /\ bin_volumes = NotCalled
    /\ half_volumes = NotCalled

\* bin_volumes = discretize(side, depth, bin_size, start)
Discretize ==
    /\ dpc = "ready"
    /\ bin_volumes' = discretize(side, depth, bin_size, start)
    /\ dpc' = "called"
    /\ UNCHANGED <<side, depth, bin_size, start, half_volumes>>
    /\ UNCHANGED <<tvars, svars, ivars, avars, fvars>>

\* the same call with half the bin size (bin sizes of an even number of units)
DiscretizeHalf ==
    /\ dpc = "called"
    /\ bin_size > 0 /\ bin_size % 2 = 0
    /\ half_volumes' = discretize(side, depth, bin_size \div 2, start)
    /\ dpc' = "halved"
    /\ UNCHANGED <<side, depth, bin_size, start, bin_volumes>>
    /\ UNCHANGED <<tvars, svars, ivars, avars, fvars>>

DiscretizeStep == Discretize \/ DiscretizeHalf

-----------------------------------------------------------------------------
(* combine_scores, apply_rule_with_score_thresholds, ..._one_row *)

MaxTableRows == 2
Scores == {NaN, F(-1), F(0), Frac(1, 2), F(1)}
\* model.get("combine"): the two known settings, another string, or None
Combines == {"relative", "difference", "other", "absent"}

\* model.get(key): Absent is the None of a key that is not configured
Absent == [has |-> FALSE, v |-> NaN]
Given(x) == [has |-> TRUE, v |-> x]
BuyThresholds == {Absent, Given(F(0)), Given(Frac(1, 2))}
SellThresholds == {Absent, Given(Frac(1, 2))}

ScoreRows == [buy_score_column : Scores, sell_score_column : Scores]
Tables == UNION {[1..n -> ScoreRows] : n \in 0..MaxTableRows}

\* CombineRelativeRow with the sell output not negated
CombineRelativeRow_SameSign(buy, sell) ==
    LET buy_plus_sell == FAdd(buy, sell)
        buy_sell_score == FSub(FMul(FDiv(buy, buy_plus_sell), F(2)), F(1))
    IN  [buy_score_column |-> buy_sell_score,
         sell_score_column |-> buy_sell_score]

\* CombineRelativeRow with the proportion not shifted by - 1.0
CombineRelativeRow_NoShift(buy, sell) ==
    LET buy_plus_sell == FAdd(buy, sell)
        buy_sell_score == FMul(FDiv(buy, buy_plus_sell), F(2))
    IN  [buy_score_column |-> buy_sell_score,
         sell_score_column |-> FNeg(buy_sell_score)]

\* one row of combine_scores_relative: the two output cells
CombineRelativeRow(buy, sell) ==
    LET buy_plus_sell == FAdd(buy, sell)
        buy_sell_score == FSub(FMul(FDiv(buy, buy_plus_sell), F(2)), F(1))
    IN  [buy_score_column |-> buy_sell_score,
         sell_score_column |-> FNeg(buy_sell_score)]

\* one row of combine_scores_difference
CombineDifferenceRow(buy, sell) ==
    LET buy_minus_sell == FSub(buy, sell)
    IN  [buy_score_column |-> buy_minus_sell,
         sell_score_column |-> FNeg(buy_minus_sell)]

\* the score columns of a row, the other columns of the row kept
WithScores(r, out) ==
    [r EXCEPT !.buy_score_column = out.buy_score_column,
              !.sell_score_column = out.sell_score_column]

\* CombineScores with the difference as the default of an unknown setting
CombineScores_DefaultDifference ==
    /\ spc = "ready"
    /\ df' = [i \in 1..Len(df) |->
                IF model.combine = "relative"
                THEN WithScores(df[i], CombineRelativeRow(df[i].buy_score_column,
                                                          df[i].sell_score_column))
                ELSE WithScores(df[i], CombineDifferenceRow(df[i].buy_score_column,
                                                            df[i].sell_score_column))]
    /\ spc' = "combined"
    /\ UNCHANGED <<model, df0, row_signals>>
    /\ UNCHANGED <<tvars, dvars, ivars, avars, fvars>>

\* combine_scores(df, model, buy_score_column, sell_score_column)
CombineScores ==
    /\ spc = "ready"
    /\ df' = [i \in 1..Len(df) |->
                IF model.combine = "relative"
                THEN WithScores(df[i], CombineRelativeRow(df[i].buy_score_column,
                                                          df[i].sell_score_column))
                ELSE IF model.combine = "difference"
                THEN WithScores(df[i], CombineDifferenceRow(df[i].buy_score_column,
                                                            df[i].sell_score_column))
                ELSE df[i]]
    /\ spc' = "combined"
    /\ UNCHANGED <<model, df0, row_signals>>
    /\ UNCHANGED <<tvars, dvars, ivars, avars, fvars>>

\* column >= model.get(...): a column compared with None is False on every row
ColumnGe(x, threshold) == IF threshold.has THEN FGe(x, threshold.v) ELSE FALSE

\* BatchSignals with the thresholds alone, without the score differences
BatchSignals_ThresholdsOnly(buy, sell, m) ==
    [buy_signal_column |-> ColumnGe(buy, m.buy_signal_threshold),
     sell_signal_column |-> ColumnGe(sell, m.sell_signal_threshold)]

\* the two signal cells the batch rule writes for a row
BatchSignals(buy, sell, m) ==
    [buy_signal_column |->
        FGt(FSub(buy, sell), F(0)) /\ ColumnGe(buy, m.buy_signal_threshold),
     sell_signal_column |->
        FGt(FSub(sell, buy), F(0)) /\ ColumnGe(sell, m.sell_signal_threshold)]

\* apply_rule_with_score_thresholds(df, model, ...)
ApplyRule ==
    /\ spc = "combined"
    /\ df' = [i \in 1..Len(df) |->
                LET sig == BatchSignals(df[i].buy_score_column,
                                        df[i].sell_score_column, model)
                IN  [buy_score_column |-> df[i].buy_score_column,
                     sell_score_column |-> df[i].sell_score_column,
                     buy_signal_column |-> sig.buy_signal_column,
                     sell_signal_column |-> sig.sell_signal_column]]
    /\ spc' = "batch"
    /\ UNCHANGED <<model, df0, row_signals>>
    /\ UNCHANGED <<tvars, dvars, ivars, avars, fvars>>

\* `a and (score >= threshold)` on scalars: the right operand is evaluated
\* only when a holds, and a number compared with None raises TypeError
AndGe(a, x, threshold) ==
    IF ~a THEN "False"
    ELSE IF ~threshold.has THEN "TypeError"
    ELSE IF FGe(x, threshold.v) THEN "True" ELSE "False"

\* apply_rule_with_score_thresholds_one_row(row, model, ...): the returned
\* tuple, or the exception raised
OneRowSignals(buy_score, sell_score, m) ==
    LET buy_sig == AndGe(FGt(FSub(buy_score, sell_score), F(0)), buy_score,
                         m.buy_signal_threshold)
        sell_sig == AndGe(FGt(FSub(sell_score, buy_score), F(0)), sell_score,
                          m.sell_signal_threshold)
    IN  IF buy_sig = "TypeError" \/ sell_sig = "TypeError"
        THEN [err |-> "TypeError", buy_signal |-> FALSE, sell_signal |-> FALSE]
        ELSE [err |-> "none", buy_signal |-> buy_sig = "True",
              sell_signal |-> sell_sig = "True"]

\* the online caller applies the one-row rule to the next row of the table
ApplyRuleOneRow ==
    /\ spc = "batch"
    /\ Len(row_signals) < Len(df)
    /\ LET row == df[Len(row_signals) + 1]
       IN  row_signals' = Append(row_signals,
               OneRowSignals(row.buy_score_column, row.sell_score_column, model))
    /\ UNCHANGED <<spc, model, df0, df>>
    /\ UNCHANGED <<tvars, dvars, ivars, avars, fvars>>

SignalStart(pc) ==
    /\ spc = pc
    /\ model \in (IF pc = "idle"
                  THEN {[combine |-> "absent", buy_signal_threshold |-> Absent,
                         sell_signal_threshold |-> Absent]}
                  ELSE [combine : Combines, buy_signal_threshold : BuyThresholds,
                        sell_signal_threshold : SellThresholds])
    /\ df0 \in (IF pc = "idle" THEN {<<>>} ELSE Tables)
    /\ df = df0
    /\ row_signals = <<>>

SignalStep == CombineScores \/ ApplyRule \/ ApplyRuleOneRow

-----------------------------------------------------------------------------
(* find_interval_precision *)

MaxIntervalRows == 5
IntervalScores == {NaN, Frac(1, 10), Frac(1, 5), Frac(9, 10)}
IntervalThresholds == {Frac(1, 2), Frac(9, 10)}

LabelRows == [label : BOOLEAN, score : IntervalScores]
LabelTables == UNION {[1..n -> LabelRows] : n \in 0..MaxIntervalRows}

\* DiffStep as a difference of 0/1 labels: +1 on a rise, -1 on a fall
DiffStep_Signed(cur, prev) == (IF cur THEN 1 ELSE 0) - (IF prev THEN 1 ELSE 0)

\* one element of df[label_column].diff() on a boolean column, as an int:
\* the exclusive or of the label and the one before it
DiffStep(cur, prev) == IF cur # prev THEN 1 ELSE 0

\* out after diff(), out.iloc[0] = False and astype(int), at row i
ChangeAt(d, i) == IF i = 1 THEN 0 ELSE DiffStep(d[i].label, d[i - 1].label)

\* out.cumsum() at row i
RECURSIVE IntervalNo(_, _)
IntervalNo(d, i) == IF i = 0 THEN 0 ELSE IntervalNo(d, i - 1) + ChangeAt(d, i)

\* the table with the two columns the function adds to it
WithIntervalColumns(d, th) ==
    [i \in 1..Len(d) |->
        [label |-> d[i].label, score |-> d[i].score,
         interval_no |-> IntervalNo(d, i),
         score_greater_than_threshold |-> FGe(d[i].score, th)]]

\* the keys of a groupby, in increasing order
RECURSIVE SortedSeq(_)
SortedSeq(S) ==
    IF S = {} THEN <<>>
    ELSE LET m == CHOOSE x \in S : \A y \in S : x <= y
         IN  <<m>> \o SortedSeq(S \ {m})

\* GroupIntervals with the interval score true only if all points reach the threshold
GroupIntervals_AllPoints(d) ==
    LET keys == SortedSeq({d[i].interval_no : i \in 1..Len(d)})
    IN  [k \in 1..Len(keys) |->
            LET rows == {i \in 1..Len(d) : d[i].interval_no = keys[k]}
            IN  [interval_no |-> keys[k],
                 label |-> \E i \in rows : d[i].label,
                 score |-> \A i \in rows : d[i].score_greater_than_threshold]]

\* groupby(interval_no) with max of the label and of the thresholded score,
\* concatenated and with the index reset: one row per interval_no
GroupIntervals(d) ==
    LET keys == SortedSeq({d[i].interval_no : i \in 1..Len(d)})
    IN  [k \in 1..Len(keys) |->
            LET rows == {i \in 1..Len(d) : d[i].interval_no = keys[k]}
            IN  [interval_no |-> keys[k],
                 label |-> \E i \in rows : d[i].label,
                 score |-> \E i \in rows : d[i].score_greater_than_threshold]]

IntervalStart(pc) ==
    /\ ipc = pc
    /\ ip_df \in (IF pc = "idle" THEN {<<>>} ELSE LabelTables)
    /\ ip_threshold \in (IF pc = "idle" THEN {Frac(1, 2)} ELSE IntervalThresholds)
    /\ interval_df = [err |-> "not called", rows |-> <<>>]

\* find_interval_precision(df, label_column, score_column, threshold)
FindIntervalPrecision ==
    /\ ipc = "ready"
    /\ ipc' = "called"
    /\ IF ip_df = <<>>
       THEN \* out.iloc[0] on an empty column
            /\ interval_df' = [err |-> "IndexError", rows |-> <<>>]
            /\ ip_df' = ip_df
       ELSE /\ ip_df' = WithIntervalColumns(ip_df, ip_threshold)
            /\ interval_df' = [err |-> "none", rows |-> GroupIntervals(ip_df')]
    /\ UNCHANGED ip_threshold
    /\ UNCHANGED <<tvars, dvars, svars, avars, fvars>>

IntervalStep == FindIntervalPrecision

-----------------------------------------------------------------------------
(* aggregate_scores *)

MaxAggRows == 3

\* the table has two score columns; score_column_out is a third name
ScoreColumns == <<"score_1", "score_2">>
AggScores == {NaN, F(0), F(1)}
AggRows == [{ScoreColumns[c] : c \in 1..Len(ScoreColumns)} -> AggScores]
AggTables == UNION {[1..n -> AggRows] : n \in 0..MaxAggRows}

\* the model dict: empty, or with point_threshold and an integer window each
\* configured or not (a float window, which selects ewm, is not drawn)
PointThresholds == {Absent, Given(F(0)), Given(Frac(1, 2))}
NoWindow == [has |-> FALSE, v |-> 0]
AggWindows == {NoWindow} \cup {[has |-> TRUE, v |-> w] : w \in 1..3}
EmptyModel == [empty |-> TRUE, point_threshold |-> Absent, window |-> NoWindow]
AggModels ==
    {EmptyModel} \cup
    {[empty |-> FALSE, point_threshold |-> th, window |-> w] :
        th \in PointThresholds, w \in AggWindows}

Present(s) == SelectSeq(s, LAMBDA x : ~IsNaN(x))

\* NanMean with skipna=False: missing as soon as one input is missing
NanMean_Propagating(s) ==
    IF Len(Present(s)) < Len(s) \/ s = <<>> THEN NaN ELSE FDiv(FSum(s), F(Len(s)))

\* mean(skipna=True): the mean of the values present, NaN when there is none
NanMean(s) ==
    LET p == Present(s)
    IN  IF p = <<>> THEN NaN ELSE FDiv(FSum(p), F(Len(p)))

\* df[score_columns].mean(skipna=True, axis=1)
MeanColumn(d) ==
    [i \in 1..Len(d) |-> NanMean([c \in 1..Len(ScoreColumns) |-> d[i][ScoreColumns[c]]])]

\* `if point_threshold:` is the truth value of the configured number
PointThresholdGiven(th) == th.has /\ Truthy(th.v)

\* score_column >= point_threshold: a boolean column, True is 1
Binarize(col, th) == [i \in 1..Len(col) |-> IF FGe(col[i], th.v) THEN F(1) ELSE F(0)]

PointColumn(col, th) ==
    IF PointThresholdGiven(th)
    THEN [dtype |-> "bool", values |-> Binarize(col, th)]
    ELSE [dtype |-> "float64", values |-> col]

\* RollingMean with min_periods rounded up: (window + 1) // 2
RollingMean_CeilPeriods(col, w) ==
    [i \in 1..Len(col) |->
        LET lo == IF i - w + 1 > 1 THEN i - w + 1 ELSE 1
            nobs == Len(Present(SubSeq(col, lo, i)))
        IN  IF nobs >= (w + 1) \div 2 /\ nobs > 0 THEN NanMean(SubSeq(col, lo, i)) ELSE NaN]

\* rolling(window, min_periods=window // 2).mean(): the mean of the values
\* present among the last `window` ones, if there are at least min_periods
\* of them and at least one
RollingMean(col, w) ==
    [i \in 1..Len(col) |->
        LET lo == IF i - w + 1 > 1 THEN i - w + 1 ELSE 1
            nobs == Len(Present(SubSeq(col, lo, i)))
        IN  IF nobs >= w \div 2 /\ nobs > 0 THEN NanMean(SubSeq(col, lo, i)) ELSE NaN]

ScoreColumn(col, w) ==
    IF w.has THEN [dtype |-> "float64", values |-> RollingMean(col.values, w.v)] ELSE col

NoColumn == [dtype |-> "float64", values |-> <<>>]

AggregateStart(pc) ==
    /\ apc = pc
    /\ agg_model \in (IF pc = "idle" THEN {EmptyModel} ELSE AggModels)
    /\ agg_df \in (IF pc = "idle" THEN {<<>>} ELSE AggTables)
    /\ mean_column = <<>> /\ point_column = NoColumn /\ score_column = NoColumn
    /\ agg_err = "not called"

\* the whole call: the configuration test, the mean, the threshold, the
\* moving average, and the assignment of the output column into df
AggregateScores ==
    /\ apc = "ready"
    /\ apc' = "called"
    /\ IF agg_model.empty
       THEN /\ agg_err' = "ValueError"
            /\ UNCHANGED <<agg_df, mean_column, point_column, score_column>>
       ELSE /\ agg_err' = "none"
            /\ mean_column' = MeanColumn(agg_df)
            /\ point_column' = PointColumn(mean_column', agg_model.point_threshold)
            /\ score_column' = ScoreColumn(point_column', agg_model.window)
            /\ agg_df' = [i \in 1..Len(agg_df) |->
                            ("score_out" :> score_column'.values[i]) @@ agg_df[i]]
    /\ UNCHANGED agg_model
    /\ UNCHANGED <<tvars, dvars, svars, ivars, fvars>>

AggregateStep == AggregateScores

-----------------------------------------------------------------------------
(* depth_to_features *)

MaxSideLen == 2

\* bin_size and windows as depth_to_df passes them
FeatureBinSize == 1
Windows == <<1, 2, 5, 10, 20>>

\* one snapshot: a timestamp in ms and the two sides, in any order of prices
FeaturePoints == (0..2) \X DepthVolumes
FeatureCurves == UNION {[1..n -> FeaturePoints] : n \in 0..MaxSideLen}
Timestamps == {0, 60000}
Entries == [timestamp : Timestamps, bids : FeatureCurves, asks : FeatureCurves]
NoEntry == [timestamp |-> 0, bids |-> <<>>, asks |-> <<>>]
NoRecord == [err |-> "not called"]

\* np.nanmean(volumes[0:min(length, len(volumes))])
Density(volumes, length) ==
    NanMean(SubSeq(volumes, 1, IF length < Len(volumes) THEN length ELSE Len(volumes)))

\* mean_volumes: both sides discretized from their first point, bids first;
\* ret maps ("bids", length) and ("asks", length) to the densities
mean_volumes(dep, windows, bs) ==
    LET bid_volumes == discretize("bid", dep.bids, bs, None)
        ask_volumes == discretize("ask", dep.asks, bs, None)
        lengths == {windows[k] : k \in 1..Len(windows)}
    IN  IF bid_volumes.err # "none" THEN [err |-> bid_volumes.err]
        ELSE IF ask_volumes.err # "none" THEN [err |-> ask_volumes.err]
        ELSE [err |-> "none",
              ret |-> [f \in {"bids", "asks"} \X lengths |->
                          IF f[1] = "bids" THEN Density(bid_volumes.bins, f[2])
                          ELSE Density(ask_volumes.bins, f[2])]]

depth_to_features(e, windows, bs) ==
    IF e.asks = <<>> \/ e.bids = <<>> THEN [err |-> "IndexError"]
    ELSE LET diff == e.asks[1][1] - e.bids[1][1]
             gap == IF diff < 0 THEN 0 ELSE diff
             densities == mean_volumes(e, windows, bs)
         IN  IF densities.err # "none" THEN [err |-> densities.err]
             ELSE [err |-> "none", timestamp |-> e.timestamp, gap |-> F(gap),
                   price |-> FAdd(F(e.bids[1][1]), Frac(gap, 2)),
                   densities |-> densities.ret]

(* depth_to_df *)
MaxSnapshots == 3

\* one step of pd.date_range(start, end, freq="T"), in ms
Minute == 60000

\* snapshots on and off the minute grid, with a few depth sides (an empty
\* side makes depth_to_features raise)
SnapshotTimes == {0, 30000, 60000, 120000}
SnapshotBids == { << <<1, 1>> >>, << <<1, 2>>, <<0, 1>> >> }
SnapshotAsks == { <<>>, << <<2, 1>> >> }
Snapshots == [timestamp : SnapshotTimes, bids : SnapshotBids, asks : SnapshotAsks]
DepthLists == UNION {[1..n -> Snapshots] : n \in 0..MaxSnapshots}

\* table: one record per entry, in list order
FeatureTable(dl) == [k \in 1..Len(dl) |-> depth_to_features(dl[k], Windows, FeatureBinSize)]

RemoveAt(s, k) == SubSeq(s, 1, k - 1) \o SubSeq(s, k + 1, Len(s))

\* df.set_index("timestamp").sort_index(): rows with equal timestamps keep
\* their list order
RECURSIVE SortIndex(_)
SortIndex(s) ==
    IF s = <<>> THEN <<>>
    ELSE LET k == CHOOSE i \in 1..Len(s) :
                    /\ \A j \in 1..Len(s) : s[j].timestamp >= s[i].timestamp
                    /\ \A j \in 1..(i - 1) : s[j].timestamp > s[i].timestamp
         IN  <<s[k]>> \o SortIndex(RemoveAt(s, k))

\* pd.date_range(start, end, freq="T"): start, start + 1 min, ... up to end
DateRange(start_ts, end_ts) ==
    [k \in 1..(IF end_ts < start_ts THEN 0 ELSE (end_ts - start_ts) \div Minute + 1) |->
        start_ts + (k - 1) * Minute]

\* a row of the joined table without a matching feature record
MissingRow(ts) ==
    [timestamp |-> ts, gap |-> NaN, price |-> NaN,
     densities |-> [f \in {"bids", "asks"} \X {Windows[k] : k \in 1..Len(Windows)} |-> NaN]]

FeatureRow(r) ==
    [timestamp |-> r.timestamp, gap |-> r.gap, price |-> r.price, densities |-> r.densities]

\* The rows of d whose index equals ts, in the order of d
Matches(d, ts) == SelectSeq(d, LAMBDA r : r.timestamp = ts)

\* DataFrame(index=index).join(df): a left join on the index; an index value
\* without a record gets missing features, one with several records gets one
\* row per record
RECURSIVE Join(_, _)
Join(idx, d) ==
    IF idx = <<>> THEN <<>>
    ELSE LET m == Matches(d, Head(idx))
         IN  (IF m = <<>> THEN <<MissingRow(Head(idx))>>
              ELSE [k \in 1..Len(m) |-> FeatureRow(m[k])])
             \o Join(Tail(idx), d)

\* the first exception of the per-entry loop, "none" if every entry has a record
FirstError(tab) ==
    IF \A k \in 1..Len(tab) : tab[k].err = "none" THEN "none"
    ELSE tab[CHOOSE k \in 1..Len(tab) :
                /\ tab[k].err # "none"
                /\ \A j \in 1..(k - 1) : tab[j].err = "none"].err

depth_to_df(dl) ==
    LET table == FeatureTable(dl)
    IN  IF FirstError(table) # "none" THEN [err |-> FirstError(table), rows |-> <<>>]
        ELSE IF dl = <<>> THEN [err |-> "KeyError", rows |-> <<>>]
        ELSE [err |-> "none",
              rows |-> Join(DateRange(dl[1].timestamp, dl[Len(dl)].timestamp),
                            SortIndex(table))]

NoTable == [err |-> "not called", rows |-> <<>>]

FeaturesStart(pc) ==
    /\ fpc = pc
    /\ entry \in (IF pc = "ready" THEN Entries ELSE {NoEntry})
    /\ record = NoRecord
    /\ depth_list \in (IF pc = "table" THEN DepthLists ELSE {<<>>})
    /\ df_out = NoTable

\* record = depth_to_features(entry, windows, bin_size)
DepthToFeatures ==
    /\ fpc = "ready"
    /\ fpc' = "called"
    /\ record' = depth_to_features(entry, Windows, FeatureBinSize)
    /\ UNCHANGED <<entry, depth_list, df_out>>
    /\ UNCHANGED <<tvars, dvars, svars, ivars, avars>>

FeaturesStep == DepthToFeatures

\* df_out = depth_to_df(depth)
DepthToDf ==
    /\ fpc = "table"
    /\ fpc' = "joined"
    /\ df_out' = depth_to_df(depth_list)
    /\ UNCHANGED <<entry, record, depth_list>>
    /\ UNCHANGED <<tvars, dvars, svars, ivars, avars>>

DepthDfStep == DepthToDf

-----------------------------------------------------------------------------
(* Specifications, one per component; the other components stay idle *)

Start(t, d, s, i, a, f) ==
    /\ TradeStart(t) /\ DiscretizeStart(d) /\ SignalStart(s)
    /\ IntervalStart(i) /\ AggregateStart(a) /\ FeaturesStart(f)

InitTrade == Start("loop", "idle", "idle", "idle", "idle", "idle")
NextTrade == TradeStep
SpecTrade == InitTrade /\ [][NextTrade]_vars

InitDiscretize == Start("idle", "ready", "idle", "idle", "idle", "idle")
NextDiscretize == DiscretizeStep
SpecDiscretize == InitDiscretize /\ [][NextDiscretize]_vars

InitSignal == Start("idle", "idle", "ready", "idle", "idle", "idle")
NextSignal == SignalStep
SpecSignal == InitSignal /\ [][NextSignal]_vars

InitInterval == Start("idle", "idle", "idle", "ready", "idle", "idle")
NextInterval == IntervalStep
SpecInterval == InitInterval /\ [][NextInterval]_vars

InitAggregate == Start("idle", "idle", "idle", "idle", "ready", "idle")
NextAggregate == AggregateStep
SpecAggregate == InitAggregate /\ [][NextAggregate]_vars

InitFeatures == Start("idle", "idle", "idle", "idle", "idle", "ready")
NextFeatures == FeaturesStep
SpecFeatures == InitFeatures /\ [][NextFeatures]_vars

InitDepthDf == Start("idle", "idle", "idle", "idle", "idle", "table")
NextDepthDf == DepthDfStep
SpecDepthDf == InitDepthDf /\ [][NextDepthDf]_vars

-----------------------------------------------------------------------------
(* Properties of simulated_trade_performance *)

\* every recorded trade, as <<index, is_buy, price, profit, profit_percent>>
AllTrades == {longs[k] : k \in 1..Len(longs)} \cup {shorts[k] : k \in 1..Len(shorts)}

\* trades in time order: the k-th trade is the one with k-1 trades before it
TradesBefore(idx) == {t \in AllTrades : t[1] < idx}

\* the recorded trades, taken in time order, alternate buy, sell, buy, ...
Alternates ==
    /\ \A t \in AllTrades, u \in AllTrades : t[1] = u[1] => t = u
    /\ \A t \in AllTrades : t[2] = (Cardinality(TradesBefore(t[1])) % 2 = 0)
    /\ \A k \in 1..Len(longs) : longs[k][2] = TRUE
    /\ \A k \in 1..Len(shorts) : shorts[k][2] = FALSE

C1_Step ==
    /\ longs' # longs =>
         /\ is_buy_mode /\ buy_signal' /\ ~is_buy_mode'
         /\ Len(longs') = Len(longs) + 1 /\ SubSeq(longs', 1, Len(longs)) = longs
         /\ longs'[Len(longs')][1] = index' /\ longs'[Len(longs')][3] = price'
         /\ shorts' = shorts
    /\ shorts' # shorts =>
         /\ ~is_buy_mode /\ sell_signal' /\ is_buy_mode'
         /\ Len(shorts') = Len(shorts) + 1 /\ SubSeq(shorts', 1, Len(shorts)) = shorts
         /\ shorts'[Len(shorts')][1] = index' /\ shorts'[Len(shorts')][3] = price'
         /\ longs' = longs
    /\ is_buy_mode' # is_buy_mode => (longs' # longs \/ shorts' # shorts)
    \* a signal of the other kind does nothing
    /\ (index' # index /\ is_buy_mode /\ ~buy_signal') =>
         (is_buy_mode' /\ longs' = longs /\ shorts' = shorts)
    /\ (index' # index /\ ~is_buy_mode /\ ~sell_signal') =>
         (~is_buy_mode' /\ longs' = longs /\ shorts' = shorts)
    /\ Alternates'

\* C1: the run starts in AwaitingBuy with no trades; a long-open trade is
\* recorded only in AwaitingBuy on a buy signal (at the row's price, moving to
\* AwaitingSell), a short-open trade only in AwaitingSell on a sell signal
\* (moving to AwaitingBuy); a row without the signal of the current mode
\* changes nothing; the trades in time order alternate buy, sell, buy, ...
C1_Alternation ==
    /\ (is_buy_mode = TRUE /\ longs = <<>> /\ shorts = <<>>)
    /\ [][C1_Step]_vars

\* a run that bought, sold and bought again
C1_Witness == Len(longs) = 2 /\ Len(shorts) = 1 /\ ~is_buy_mode

\* the trades of `trades` recorded before row idx
Earlier(trades, idx) == {j \in 1..Len(trades) : trades[j][1] < idx}

MostRecent(trades, idx) ==
    CHOOSE j \in Earlier(trades, idx) : \A i \in Earlier(trades, idx) : i <= j

\* the profit and percent the claim prescribes for the trade t that closes
\* the most recent trade of `opposite`; dir is +1 for a sell, -1 for a buy
ClaimedProfit(t, opposite, dir) ==
    IF Earlier(opposite, t[1]) = {} THEN F(0)
    ELSE LET prev == opposite[MostRecent(opposite, t[1])][3]
         IN  FMul(F(dir), FSub(t[3], prev))

ClaimedPercent(t, opposite) ==
    LET previous_price == IF Earlier(opposite, t[1]) = {} THEN F(0)
                          ELSE opposite[MostRecent(opposite, t[1])][3]
    IN  IF FGt(previous_price, F(0))
        THEN FDiv(FMul(F(100), t[4]), previous_price) ELSE F(0)

\* C2: every executed buy records profit = (price of the most recent
\* short-open trade) - price when such a trade exists and 0 otherwise, every
\* executed sell records profit = price - (price of the most recent long-open
\* trade) when such a trade exists and 0 otherwise, and the percent profit is
\* 100 * profit / previous_price when previous_price > 0 and 0 otherwise.
C2_ProfitRule ==
    /\ \A k \in 1..Len(longs) :
         /\ longs[k][4] = ClaimedProfit(longs[k], shorts, -1)
         /\ longs[k][5] = ClaimedPercent(longs[k], shorts)
    /\ \A k \in 1..Len(shorts) :
         /\ shorts[k][4] = ClaimedProfit(shorts[k], longs, 1)
         /\ shorts[k][5] = ClaimedPercent(shorts[k], longs)

\* the same rule on the runs all of whose recorded prices are positive
C2_ProfitRulePositive ==
    (\A t \in AllTrades : FGt(t[3], F(0))) => C2_ProfitRule

C2_Witness ==
    /\ Len(longs) = 2 /\ Len(shorts) = 1
    /\ FGt(shorts[1][4], F(0)) /\ FGt(longs[2][4], F(0))

-----------------------------------------------------------------------------
(* Properties of discretize *)

RECURSIVE IntSum(_, _, _)
IntSum(f(_), lo, hi) == IF lo > hi THEN 0 ELSE f(lo) + IntSum(f, lo + 1, hi)

\* the curve is ordered as its side requires: asks ascending, bids descending
Ordered(s, d) ==
    /\ PriceIncrease(s) # "unbound"
    /\ \A i \in 1..(Len(d) - 1) :
         IF PriceIncrease(s) = "up" THEN d[i][1] <= d[i + 1][1]
         ELSE d[i][1] >= d[i + 1][1]

\* the step function of the curve on the unit price cell next to x in the
\* direction of the side ([x, x+1) for asks, (x-1, x] for bids): 0 before the
\* first point, else the cumulative volume of the last point reached
StepAt(s, d, x) ==
    LET reached == IF PriceIncrease(s) = "up"
                   THEN {i \in 1..Len(d) : d[i][1] <= x}
                   ELSE {i \in 1..Len(d) : d[i][1] >= x}
    IN  IF reached = {} THEN 0 ELSE d[SetMax(reached)][2]

\* the area under the step function over n bins of size bs from st
Area(s, d, st, bs, n) ==
    LET cell(x) == StepAt(s, d, x)
    IN  IF PriceIncrease(s) = "up"
        THEN IntSum(cell, st, st + n * bs - 1)
        ELSE IntSum(cell, st - n * bs + 1, st)

\* sum(bins) * bin_size
Mass(r, bs) == FMul(FSum(r.bins), F(bs))

FirstPrice == depth[1][1]
LastPrice == depth[Len(depth)][1]
StartPrice == IF start = None THEN FirstPrice ELSE start

\* C6: for a correctly ordered non-empty curve, bin_size > 0 and start
\* defaulting to the first price, discretize returns and sum(bins) * bin_size
\* is the area under the step function of the curve from start to the end of
\* the last bin.
C6_AreaPreserved ==
    (dpc # "ready" /\ depth # <<>> /\ Ordered(side, depth) /\ bin_size > 0
        /\ start = None)
    => /\ bin_volumes.err = "none"
       /\ Mass(bin_volumes, bin_size)
            = F(Area(side, depth, FirstPrice, bin_size, Len(bin_volumes.bins)))

\* a bid curve of three points spread over several bins, one of them empty
C6_Witness ==
    /\ dpc = "called" /\ side = "bid" /\ start = None /\ bin_size = 1
    /\ Len(depth) = 3 /\ Ordered(side, depth)
    /\ Len(bin_volumes.bins) = 4

CeilDiv(a, b) == (a + b - 1) \div b

\* C7 as claimed: the number of bins is ceil(|last_price - start| / bin_size),
\* and at least 1.
C7_CeilCount ==
    (dpc # "ready" /\ depth # <<>> /\ bin_size > 0 /\ bin_volumes.err = "none")
    => LET c == CeilDiv(Abs(LastPrice - StartPrice), bin_size)
       IN  Len(bin_volumes.bins) = (IF c < 1 THEN 1 ELSE c)

\* C7 as amended: whenever discretize returns for a non-empty curve and
\* bin_size > 0, the number n of bins is floor(|last_price - start| / bin_size)
\* + 1, that is n >= 1 and (n-1) * bin_size <= |last_price - start| < n * bin_size.
C7_FloorPlusOne ==
    (dpc # "ready" /\ depth # <<>> /\ bin_size > 0 /\ bin_volumes.err = "none")
    => LET n == Len(bin_volumes.bins)
           dist == Abs(LastPrice - StartPrice)
       IN  n >= 1 /\ (n - 1) * bin_size <= dist /\ dist < n * bin_size

\* a call with an explicit start whose distance to the last price is a
\* positive multiple of the bin size
C7_Witness ==
    /\ dpc = "called" /\ bin_volumes.err = "none" /\ depth # <<>>
    /\ start # None /\ bin_size = 2
    /\ Abs(LastPrice - StartPrice) = 2 /\ Len(bin_volumes.bins) = 2

BothReturned ==
    dpc = "halved" /\ bin_volumes.err = "none" /\ half_volumes.err = "none"

\* C8 as claimed: with bin_size / 2 discretize returns at least twice as many
\* bins and the same total preserved volume.
C8_HalvingDoubles ==
    BothReturned
    => /\ Len(half_volumes.bins) >= 2 * Len(bin_volumes.bins)
       /\ Mass(half_volumes, bin_size \div 2) = Mass(bin_volumes, bin_size)

\* C8 as amended: the call with bin_size / 2 returns 2n-1 or 2n bins, n being
\* the count for bin_size; for a correctly ordered curve and the default start
\* both calls return, and the preserved volume sum(bins) * bin_size is the
\* same when the count doubles and smaller by (bin_size / 2) * (cumulative
\* volume of the last point) when it is 2n-1.
C8_HalvingAmended ==
    /\ BothReturned =>
         LET n == Len(bin_volumes.bins)
             m == Len(half_volumes.bins)
         IN  m = 2 * n - 1 \/ m = 2 * n
    /\ (dpc = "halved" /\ depth # <<>> /\ Ordered(side, depth) /\ start = None) =>
         LET n == Len(bin_volumes.bins)
             m == Len(half_volumes.bins)
         IN  /\ BothReturned
             /\ Mass(bin_volumes, bin_size) =
                  FAdd(Mass(half_volumes, bin_size \div 2),
                       F((2 * n - m) * (bin_size \div 2) * depth[Len(depth)][2]))

\* a halved call that returns 2n-1 bins, and less volume, for n = 2
C8_Witness ==
    /\ BothReturned /\ Ordered(side, depth) /\ start = None
    /\ Len(bin_volumes.bins) = 2 /\ Len(half_volumes.bins) = 3
    /\ Mass(bin_volumes, bin_size) # Mass(half_volumes, bin_size \div 2)

-----------------------------------------------------------------------------
(* Properties of the rule and of the combine functions *)

\* C3: after apply_rule_with_score_thresholds no row has both buy_signal and
\* sell_signal true, whatever the scores (missing ones included) and thresholds.
C3_MutuallyExclusive ==
    spc = "batch" =>
        \A i \in 1..Len(df) : ~(df[i].buy_signal_column /\ df[i].sell_signal_column)

\* a table with a buy row and a sell row
C3_Witness ==
    /\ spc = "batch" /\ Len(df) = 2
    /\ df[1].buy_signal_column /\ ~df[1].sell_signal_column
    /\ df[2].sell_signal_column /\ ~df[2].buy_signal_column

\* C4: the one-row rule applied to each row gives the same booleans and the
\* same error outcome (the batch rule raises nothing) as the batch rule.
C4_RowBatchEquivalent ==
    \A i \in 1..Len(row_signals) :
        /\ row_signals[i].err = "none"
        /\ row_signals[i].buy_signal = df[i].buy_signal_column
        /\ row_signals[i].sell_signal = df[i].sell_signal_column

\* the equivalence on the configurations that give both thresholds
C4_EquivalentWhenConfigured ==
    (model.buy_signal_threshold.has /\ model.sell_signal_threshold.has)
    => C4_RowBatchEquivalent

C4_Witness ==
    /\ model.buy_signal_threshold.has /\ model.sell_signal_threshold.has
    /\ Len(row_signals) = 2
    /\ row_signals[1].buy_signal /\ row_signals[2].sell_signal

\* C9: after combine_scores_relative or combine_scores_difference every row
\* has buy_out = -sell_out, and the two outputs are missing on the same rows.
C9_OppositeOutputs ==
    (spc # "ready" /\ model.combine \in {"relative", "difference"}) =>
        \A i \in 1..Len(df) :
            /\ df[i].buy_score_column = FNeg(df[i].sell_score_column)
            /\ IsNaN(df[i].buy_score_column) <=> IsNaN(df[i].sell_score_column)

\* a relative combination with a missing output row and a positive one
C9_Witness ==
    /\ spc = "combined" /\ model.combine = "relative" /\ Len(df) = 2
    /\ IsNaN(df[1].buy_score_column)
    /\ FGt(df[2].buy_score_column, F(0)) /\ FGt(F(0), df[2].sell_score_column)

NonNegative(x) == IsFinite(x) /\ x[1] >= 0

\* C10: on rows with non-negative inputs combine_scores_relative yields
\* buy_out = 2 * buy / (buy + sell) - 1 = (buy - sell) / (buy + sell) and
\* sell_out = -buy_out, both within [-1, +1], and a missing value on exactly
\* the rows with buy + sell = 0.
C10_RelativeRange ==
    (spc = "combined" /\ model.combine = "relative") =>
        \A i \in 1..Len(df) :
            LET buy == df0[i].buy_score_column
                sell == df0[i].sell_score_column
                buy_out == df[i].buy_score_column
                sell_out == df[i].sell_score_column
                \* buy + sell and buy - sell as fractions over one denominator
                den == buy[1] * sell[2] + sell[1] * buy[2]
                num == buy[1] * sell[2] - sell[1] * buy[2]
            IN  (NonNegative(buy) /\ NonNegative(sell)) =>
                    IF den = 0
                    THEN IsNaN(buy_out) /\ IsNaN(sell_out)
                    ELSE /\ IsFinite(buy_out) /\ IsFinite(sell_out)
                         /\ buy_out[1] * den = num * buy_out[2]
                         /\ sell_out[1] = -buy_out[1] /\ sell_out[2] = buy_out[2]
                         /\ FGe(buy_out, F(-1)) /\ FGe(F(1), buy_out)
                         /\ FGe(sell_out, F(-1)) /\ FGe(F(1), sell_out)

\* buy = sell = 0 on the first row, buy = 1/2 and sell = 1 on the second
C10_Witness ==
    /\ spc = "combined" /\ model.combine = "relative" /\ Len(df) = 2
    /\ df0[1] = [buy_score_column |-> F(0), sell_score_column |-> F(0)]
    /\ IsNaN(df[1].buy_score_column)
    /\ df0[2] = [buy_score_column |-> Frac(1, 2), sell_score_column |-> F(1)]
    /\ df[2].buy_score_column = Frac(-1, 3)

-----------------------------------------------------------------------------
(* Properties of find_interval_precision *)

IntervalsReturned == ipc = "called" /\ interval_df.err = "none"

\* the number of label changes up to row i: the index of the maximal run of
\* identical labels that row i lies in, counted from 0
RunOf(i) == Cardinality({j \in 2..i : ip_df[j].label # ip_df[j - 1].label})

C12_IntervalLabelScore ==
    IntervalsReturned =>
        /\ \A i \in 1..Len(ip_df) : RunOf(i) + 1 \in 1..Len(interval_df.rows)
        /\ \A k \in 1..Len(interval_df.rows) :
              LET run == {i \in 1..Len(ip_df) : RunOf(i) = k - 1}
              IN  /\ run # {}
                  /\ \A i \in run : interval_df.rows[k].label = ip_df[i].label
                  /\ interval_df.rows[k].score
                       <=> (\E i \in run : FGe(ip_df[i].score, ip_threshold))

\* the example: labels [T,T,F,F,T], scores [0.9,0.2,0.1,0.1,0.9], threshold
\* 0.5 give (0,T,T), (1,F,F), (2,T,T)
C12_Witness ==
    /\ IntervalsReturned /\ ip_threshold = Frac(1, 2)
    /\ [i \in 1..Len(ip_df) |-> <<ip_df[i].label, ip_df[i].score>>]
         = << <<TRUE, Frac(9, 10)>>, <<TRUE, Frac(1, 5)>>, <<FALSE, Frac(1, 10)>>,
              <<FALSE, Frac(1, 10)>>, <<TRUE, Frac(9, 10)>> >>
    /\ interval_df.rows
         = << [interval_no |-> 0, label |-> TRUE, score |-> TRUE],
              [interval_no |-> 1, label |-> FALSE, score |-> FALSE],
              [interval_no |-> 2, label |-> TRUE, score |-> TRUE] >>

-----------------------------------------------------------------------------
(* Properties of simulated_trade_performance: skipped rows and the reports *)

\* C13: a row whose price is missing leaves the mode, both trade lists and
\* every profit and transaction accumulator unchanged, whatever its signals
\* are, and the loop goes on to the next row.
C13_Step ==
    (tpc = "loop" /\ index' = index + 1 /\ IsNaN(price')) =>
        /\ tpc' = "loop"
        /\ UNCHANGED <<is_buy_mode, longs, shorts,
                       long_profit, long_profit_percent, long_transactions, long_profitable,
                       short_profit, short_profit_percent, short_transactions,
                       short_profitable>>

C13_MissingPriceSkipped == [][C13_Step]_vars

\* a row with both signals and no price, met while a sell is awaited
C13_Witness ==
    /\ tpc = "loop" /\ index = 2 /\ IsNaN(price) /\ sell_signal /\ buy_signal
    /\ Len(longs) = 1 /\ shorts = <<>> /\ ~is_buy_mode

TradeProfits(trades) == [k \in 1..Len(trades) |-> trades[k][4]]

ProfitableTrades(trades) == Cardinality({k \in 1..Len(trades) : FGt(trades[k][4], F(0))})

\* C14: the combined report's profit is the sum of the profit fields of all
\* recorded trades, its transaction count is the number of recorded trades, and
\* profit_per_transaction is profit / transaction count, 0 without trades.
C14_CombinedReport ==
    tpc = "done" =>
        LET n == Len(longs) + Len(shorts)
        IN  /\ performance.profit = FSum(TradeProfits(longs \o shorts))
            /\ performance.transaction_no = n
            /\ performance.profit_per_transaction
                 = (IF n = 0 THEN F(0) ELSE FDiv(performance.profit, F(n)))

C14_Witness ==
    /\ tpc = "done" /\ Len(longs) = 2 /\ Len(shorts) = 2
    /\ FGt(performance.profit, F(0))
    /\ performance.profit_per_transaction = FDiv(performance.profit, F(4))

\* C15: the combined report's profitable_percent is 100 * (number of trades
\* with profit > 0) / (transaction count), 0 without trades.
C15_ProfitablePercent ==
    tpc = "done" =>
        LET n == Len(longs) + Len(shorts)
        IN  performance.profitable_percent
              = (IF n = 0 THEN F(0)
                 ELSE FDiv(FMul(F(100), F(ProfitableTrades(longs \o shorts))), F(n)))

-----------------------------------------------------------------------------
(* Properties of aggregate_scores *)

AggregateReturned == apc = "called" /\ agg_err = "none"

InputScores(i) == {agg_df[i][ScoreColumns[c]] : c \in 1..Len(ScoreColumns)}

AllMissing(i) == \A x \in InputScores(i) : IsNaN(x)

\* the mean of the non-missing inputs of row i, each column counted once
PresentMean(i) ==
    LET cols == {c \in 1..Len(ScoreColumns) : ~IsNaN(agg_df[i][ScoreColumns[c]])}
        ones == Cardinality({c \in cols : agg_df[i][ScoreColumns[c]] = F(1)})
    IN  Frac(ones, Cardinality(cols))

\* C16: without threshold and smoothing the output at a row is the mean of
\* the non-missing inputs, and is missing only when all inputs are missing.
C16_MeanOfPresent ==
    (AggregateReturned /\ ~agg_model.point_threshold.has /\ ~agg_model.window.has) =>
        /\ Len(score_column.values) = Len(agg_df)
        /\ \A i \in 1..Len(agg_df) :
              /\ IsNaN(score_column.values[i]) <=> AllMissing(i)
              /\ ~AllMissing(i) => score_column.values[i] = PresentMean(i)
              /\ agg_df[i]["score_out"] = score_column.values[i]

\* one input missing and the other present, and a row with both missing
C16_Witness ==
    /\ AggregateReturned /\ ~agg_model.point_threshold.has /\ ~agg_model.window.has
    /\ Len(agg_df) = 3
    /\ agg_df[1]["score_1"] = NaN /\ agg_df[1]["score_2"] = F(1)
    /\ score_column.values[1] = F(1)
    /\ AllMissing(2) /\ IsNaN(score_column.values[2])
    /\ score_column.values[3] = Frac(1, 2)

\* C17: whenever a point_threshold is given, 0 included, the mean is
\* binarized before smoothing: 1 where mean >= threshold, 0 where mean <
\* threshold.
C17_BinarizedWhenGiven ==
    (AggregateReturned /\ agg_model.point_threshold.has) =>
        \A i \in 1..Len(agg_df) :
            /\ FGe(mean_column[i], agg_model.point_threshold.v)
                 => point_column.values[i] = F(1)
            /\ FGt(agg_model.point_threshold.v, mean_column[i])
                 => point_column.values[i] = F(0)

\* C18: with a point_threshold set and no smoothing, a row whose inputs are
\* all missing has a missing output.
C18_MissingPropagated ==
    (AggregateReturned /\ agg_model.point_threshold.has /\ ~agg_model.window.has) =>
        \A i \in 1..Len(agg_df) : AllMissing(i) => IsNaN(score_column.values[i])

-----------------------------------------------------------------------------
(* Properties of the error handling of the depth pipeline *)

\* C19: discretize called with an empty curve or with bin_size <= 0 ends in
\* an error and returns no bin profile.
C19_InvalidInputRaises ==
    (dpc = "called" /\ (depth = <<>> \/ bin_size <= 0)) => bin_volumes.err # "none"

\* C20: a snapshot with a side out of price order (bids descending, asks
\* ascending) is rejected with an error: depth_to_features, through
\* mean_volumes and discretize, returns no record for it.
C20_UnorderedRejected ==
    (fpc = "called" /\ (~Ordered("bid", entry.bids) \/ ~Ordered("ask", entry.asks)))
        => record.err # "none"

-----------------------------------------------------------------------------
(* Properties of depth_to_df *)

TableReturned == fpc = "joined" /\ df_out.err = "none"

FirstTs == depth_list[1].timestamp
LastTs == depth_list[Len(depth_list)].timestamp

\* the k with FirstTs + k minutes not exceeding LastTs
GridSteps == {k \in 0..((LastTs - FirstTs) \div Minute) : FirstTs + k * Minute <= LastTs}

SnapshotsAt(ts) == {k \in 1..Len(depth_list) : depth_list[k].timestamp = ts}

Features(r) == [gap |-> r.gap, price |-> r.price, densities |-> r.densities]

MinuteIndexed ==
    /\ Len(df_out.rows) = Cardinality(GridSteps)
    /\ \A k \in 1..Len(df_out.rows) :
          LET ts == FirstTs + (k - 1) * Minute
              row == df_out.rows[k]
          IN  /\ row.timestamp = ts
              /\ SnapshotsAt(ts) = {} => Features(row) = Features(MissingRow(ts))
              /\ SnapshotsAt(ts) # {} =>
                    \E s \in SnapshotsAt(ts) :
                        Features(row)
                          = Features(depth_to_features(depth_list[s], Windows, FeatureBinSize))

\* C21: the returned table is indexed by exactly the timestamps first + k
\* minutes not exceeding last, in increasing order; a minute without a snapshot
\* has all features missing, a minute with a snapshot carries its features.
C21_MinuteIndex == TableReturned => MinuteIndexed

DistinctTimestamps ==
    \A a \in 1..Len(depth_list), b \in 1..Len(depth_list) :
        a # b => depth_list[a].timestamp # depth_list[b].timestamp

\* the same for lists in which no two snapshots have the same timestamp
C21_MinuteIndexDistinct == (TableReturned /\ DistinctTimestamps) => MinuteIndexed

-----------------------------------------------------------------------------
(* Properties of the tables the functions are given *)

\* after combine_scores the caller's table is as it was passed in
CombineReadOnly == spc = "combined" => df = df0

\* after find_interval_precision the caller's table has its two columns only
IntervalReadOnly ==
    IntervalsReturned => \A i \in 1..Len(ip_df) : DOMAIN ip_df[i] = {"label", "score"}

\* after aggregate_scores the caller's table has its score columns only
AggregateReadOnly ==
    AggregateReturned =>
        \A i \in 1..Len(agg_df) :
            DOMAIN agg_df[i] = {ScoreColumns[c] : c \in 1..Len(ScoreColumns)}

\* C22: aggregate_scores, combine_scores and find_interval_precision leave the
\* table they are given with the same columns and the same values as before
\* the call.
C22_ReadOnlyInputs == CombineReadOnly /\ IntervalReadOnly /\ AggregateReadOnly

\* C30: combine_scores with a 'combine' setting that is neither 'relative' nor
\* 'difference', or without the setting, returns normally and leaves both score
\* columns as they were.
C30_UnknownCombineKeeps ==
    (spc = "combined" /\ model.combine \notin {"relative", "difference"}) => df = df0

\* a table with different scores in the two columns, and an unknown setting
C30_Witness ==
    /\ spc = "combined" /\ model.combine = "other"
    /\ Len(df) = 2 /\ df = df0
    /\ df[1].buy_score_column = F(1) /\ df[1].sell_score_column = Frac(1, 2)

-----------------------------------------------------------------------------
(* Properties of discretize: bins and points *)

Up == PriceIncrease(side) = "up"

\* consecutive prices are exactly bin_size apart, in the direction of the side
EvenlySpaced ==
    /\ PriceIncrease(side) # "unbound"
    /\ \A i \in 1..(Len(depth) - 1) :
          depth[i + 1][1] = (IF Up THEN depth[i][1] + bin_size ELSE depth[i][1] - bin_size)

\* C23: for a correctly ordered curve whose consecutive prices are exactly
\* bin_size apart and start at the first price, discretize returns one bin per
\* point, and bin i is the volume of point i; a single point gives one bin.
C23_OneBinPerPoint ==
    (dpc # "ready" /\ depth # <<>> /\ bin_size > 0 /\ EvenlySpaced
        /\ StartPrice = FirstPrice)
    => /\ bin_volumes.err = "none"
       /\ bin_volumes.bins = [i \in 1..Len(depth) |-> F(depth[i][2])]

\* the bid curve [(2,1),(1,1),(0,2)] with bin_size 1 and start 2 gives [1, 1, 2]
C23_Witness ==
    /\ dpc = "called" /\ side = "bid" /\ bin_size = 1 /\ start = 2
    /\ depth = << <<2, 1>>, <<1, 1>>, <<0, 2>> >>
    /\ bin_volumes = [err |-> "none", bins |-> <<F(1), F(1), F(2)>>]

\* bin b (counted from 1) of the call: where it starts and the points in it
BinStart(b) == IF Up THEN StartPrice + (b - 1) * bin_size ELSE StartPrice - (b - 1) * bin_size
BinEnd(b) == IF Up THEN BinStart(b) + bin_size ELSE BinStart(b) - bin_size
PointsIn(b) == BinPointIds(depth, Up, BinStart(b), BinEnd(b))

\* the volume of the point immediately preceding bin b, 0 when there is none
PrecedingVolume(b) ==
    LET before == {i \in 1..Len(depth) :
                      IF Up THEN depth[i][1] < BinStart(b) ELSE depth[i][1] > BinStart(b)}
    IN  IF before = {} THEN 0 ELSE depth[SetMax(before)][2]

EmptyBinsInherit ==
    \A b \in 1..Len(bin_volumes.bins) :
        PointsIn(b) = {} => bin_volumes.bins[b] = F(PrecedingVolume(b))

OrderedCall ==
    dpc # "ready" /\ depth # <<>> /\ bin_size > 0 /\ Ordered(side, depth)

\* C24: every bin without a curve point, the first bin of a call with an
\* explicit start away from the first point included, gets the volume of the
\* point immediately preceding the bin (0 when none precedes it), and the call
\* completes without error.
C24_EmptyBinInherits ==
    OrderedCall => (bin_volumes.err = "none" /\ EmptyBinsInherit)

\* the same for the calls that return
C24_EmptyBinInheritsReturned ==
    (OrderedCall /\ bin_volumes.err = "none") => EmptyBinsInherit

-----------------------------------------------------------------------------
(* Properties of the moving average of aggregate_scores *)

\* the rows of the window of row i, and those with a value
WindowRows(i) ==
    {j \in 1..Len(point_column.values) : j <= i /\ j > i - agg_model.window.v}
WindowPresent(i) == {j \in WindowRows(i) : ~IsNaN(point_column.values[j])}

\* the mean of the values present in the window (the values are 0, 1/2 or 1)
WindowMean(i) ==
    LET ones == Cardinality({j \in WindowPresent(i) : point_column.values[j] = F(1)})
        halves == Cardinality({j \in WindowPresent(i) : point_column.values[j] = Frac(1, 2)})
    IN  Frac(2 * ones + halves, 2 * Cardinality(WindowPresent(i)))

\* the output is missing exactly below minp values present, else it is the mean
SmoothedWith(minp) ==
    \A i \in 1..Len(point_column.values) :
        /\ IsNaN(score_column.values[i]) <=> Cardinality(WindowPresent(i)) < minp
        /\ ~IsNaN(score_column.values[i]) => score_column.values[i] = WindowMean(i)

Smoothed == AggregateReturned /\ agg_model.window.has

\* C25 as claimed: with an integer window w the output is missing exactly when
\* fewer than ceil(w/2) of the last w aggregated values are non-missing, and
\* otherwise is the mean of the non-missing values of the window.
C25_CeilHalf == Smoothed => SmoothedWith((agg_model.window.v + 1) \div 2)

\* C25 as amended: the output is missing exactly when fewer than
\* max(1, floor(w/2)) of the last w aggregated values are non-missing, and
\* otherwise is the mean of the non-missing values of the window.
C25_FloorHalf ==
    Smoothed =>
        SmoothedWith(IF agg_model.window.v \div 2 < 1 THEN 1 ELSE agg_model.window.v \div 2)

\* window 3 with one value present out of three: the output is that value
C25_Witness ==
    /\ Smoothed /\ agg_model.window.v = 3 /\ ~agg_model.point_threshold.has
    /\ point_column.values = <<NaN, NaN, F(1)>>
    /\ score_column.values = <<NaN, NaN, F(1)>>

-----------------------------------------------------------------------------
(* Properties of simulated_trade_performance: the lists and the counters *)

\* the row just read has a price and is not skipped
RowPriced == tpc = "loop" /\ index' = index + 1 /\ Truthy(price') /\ ~IsNaN(price')

\* the row just read makes the function buy / sell
BuyEvent == RowPriced /\ is_buy_mode /\ buy_signal'
SellEvent == RowPriced /\ ~is_buy_mode /\ sell_signal'

\* trades is extended by one trade of the row just read
Appended(trades_after, trades) ==
    /\ Len(trades_after) = Len(trades) + 1
    /\ SubSeq(trades_after, 1, Len(trades)) = trades
    /\ trades_after[Len(trades_after)][1] = index'
    /\ trades_after[Len(trades_after)][3] = price'

C26_OppositeStep ==
    /\ BuyEvent => (Appended(shorts', shorts) /\ longs' = longs)
    /\ SellEvent => (Appended(longs', longs) /\ shorts' = shorts)

\* C26 as claimed: a buy-signal event appends its trade to the shorts list and
\* a sell-signal event appends its trade to the longs list.
C26_OppositeList == [][C26_OppositeStep]_vars

C26_OwnStep ==
    /\ BuyEvent =>
          /\ Appended(longs', longs) /\ shorts' = shorts
          /\ short_transactions' = short_transactions + 1
          /\ long_transactions' = long_transactions
    /\ SellEvent =>
          /\ Appended(shorts', shorts) /\ longs' = longs
          /\ long_transactions' = long_transactions + 1
          /\ short_transactions' = short_transactions

\* C26 as amended: a buy-signal event appends its trade to the longs list and
\* a sell-signal event to the shorts list; it is the counters that are those
\* of the opposite side (a buy counts as a short transaction, a sell as a
\* long transaction).
C26_OwnList == [][C26_OwnStep]_vars

\* one buy and one sell: a trade in each list, a transaction on each side
C26_Witness ==
    /\ tpc = "loop" /\ index = 2 /\ is_buy_mode
    /\ Len(longs) = 1 /\ longs[1][1] = 1 /\ longs[1][2] = TRUE
    /\ Len(shorts) = 1 /\ shorts[1][1] = 2 /\ shorts[1][2] = FALSE
    /\ long_transactions = 1 /\ short_transactions = 1

ModeMatchesLists ==
    /\ (is_buy_mode = TRUE) <=> Len(longs) = Len(shorts)
    /\ (is_buy_mode = FALSE) <=> Len(longs) = Len(shorts) + 1
    /\ Len(longs) - Len(shorts) \in {0, 1}

\* C27: the mode is AwaitingBuy exactly when len(longs) = len(shorts) and
\* AwaitingSell exactly when len(longs) = len(shorts) + 1, so the difference
\* is 0 or 1; and whenever a sell is executed the longs list is non-empty.
C27_ModeAndLengths == []ModeMatchesLists /\ [][SellEvent => longs # <<>>]_vars

\* two buys and two sells, back in AwaitingBuy
C27_Witness ==
    /\ tpc = "loop" /\ is_buy_mode = TRUE /\ Len(longs) = 2 /\ Len(shorts) = 2
    /\ sell_signal /\ index = 4

\* C28: long_performance.transaction_no is the number of entries of shorts and
\* short_performance.transaction_no the number of entries of longs (the first
\* buy is a short transaction with profit 0), so a report's transaction_no
\* and the length of its own transactions list differ by at most one.
C28_CrossedCounts ==
    tpc = "done" =>
        /\ long_performance.transaction_no = Len(shorts)
        /\ short_performance.transaction_no = Len(longs)
        /\ long_performance.transactions = longs
        /\ short_performance.transactions = shorts
        /\ longs # <<>> => longs[1][4] = F(0)
        /\ Len(long_performance.transactions) - long_performance.transaction_no \in {0, 1}
        /\ short_performance.transaction_no - Len(short_performance.transactions) \in {0, 1}

\* a run ending in AwaitingSell: the long report lists two trades and counts one
C28_Witness ==
    /\ tpc = "done"
    /\ Len(long_performance.transactions) = 2 /\ long_performance.transaction_no = 1
    /\ Len(short_performance.transactions) = 1 /\ short_performance.transaction_no = 2

C29_Step ==
    (tpc = "loop" /\ index' = index + 1) =>
        /\ Len(longs') + Len(shorts') <= Len(longs) + Len(shorts) + 1
        /\ (is_buy_mode' # is_buy_mode)
              <=> (Len(longs') + Len(shorts') = Len(longs) + Len(shorts) + 1)
        /\ (BuyEvent /\ sell_signal') =>
              (Appended(longs', longs) /\ shorts' = shorts /\ is_buy_mode' = FALSE)
        /\ (SellEvent /\ buy_signal') =>
              (Appended(shorts', shorts) /\ longs' = longs /\ is_buy_mode' = TRUE)

\* C29: a row records at most one trade and changes the mode at most once; a
\* row with both signals executes only the buy in AwaitingBuy and only the sell
\* in AwaitingSell.
C29_OneTradePerRow == [][C29_Step]_vars

\* the first row has both signals: it bought and did not sell
C29_Witness ==
    /\ tpc = "loop" /\ index = 1 /\ buy_signal /\ sell_signal
    /\ Len(longs) = 1 /\ shorts = <<>> /\ is_buy_mode = FALSE

====
